---------------------------- MODULE Spec2Model ----------------------------
(***************************************************************************)
(* Model of the Airthings Wave poller: the Task scheduler object and the   *)
(* App orchestrator (read cycle, discovery, discovery backoff, main loop)  *)
(* of src/wave/app.py.  One control thread; `pc` is its position.          *)
(*                                                                         *)
(* Time is in seconds, as in the source (time.time()).  External calls     *)
(* (BLE scan, BLE read, MQTT publish) are collaborators: a scan either     *)
(* raises or returns a set of devices, a read returns a sample, runs into  *)
(* the 60 s timeout or raises, a publish records the message.              *)
(***************************************************************************)
EXTENDS Integers, Sequences, FiniteSets

\* ---------------------------------------------------------------- bounds
\* The clock stops advancing past MaxTime (the loop of the source is endless).
MaxTime == 88500
\* Scans made by one discovery backoff (the source puts no bound on them).
MaxScans == 5
\* Bounds of the stand-alone Task specification (SpecTask).
MaxTaskClock == 4
MaxInterval == 2
MaxNow == 6
\* Bounds of the companion's specification (SpecCompanion): configured
\* waves, and the `retries` argument of peripheral_with_retries.
MaxWaves == 2
MaxRetries == 4

\* ------------------------------------------------------ program constants
S_MIN == 60
S_HOUR == 60 * S_MIN
ReadInterval == 30 * S_MIN
DiscoverInterval == 24 * S_HOUR
ReadTimeout == 60
MaxFailStreak == 3
\* The retries with_peripheral passes to peripheral_with_retries.
WithPeripheralRetries == 3

\* Python's None in an Optional[float] field or argument.
None == -1

Tasks == {"read", "discover"}
Devices == {"A", "B"}

NoExc == "none"
ScanError == "scan_error"
ReadError == "read_error"
SleepError == "value_error"
FuncError == "func_error"

VARIABLES
    clock,        \* time.time()
    nextRun,      \* Task.__next_run_at of each task (None: unset)
    runInterval,  \* Task.run_interval of each task
    pc,           \* position of the control thread
    retPc,        \* where Task.run returns to
    curTask,      \* the task whose run() is executing ("none": no run)
    exc,          \* the exception propagating out of the task's func
    devices,      \* App._devices
    rdDevices,    \* __read's local `devices`
    samples,      \* __read's local `samples`: <<device, sample or None>>
    failStreak,   \* __wait_until_discover's local fail_streak
    sleepTime,    \* __update_loop's local sleep_time
    published,    \* messages handed to the MQTT client by the current read cycle
    attempts,     \* read attempts of the current read cycle: <<device, outcome>>
    scanHist,     \* scan outcomes of the current discovery backoff
    lastScan,     \* the scan of the discovery in progress, and the list before it
    lastCall,     \* the last call of maybe_run / get_next_run, with its result
    lastRun,      \* per task: completion time and failure of the last run()
    lastWriter,   \* per task: what wrote __next_run_at last
    overdueAt,    \* tasks overdue when the loop last computed its sleep time
    tick,         \* what the current __run_tasks call did with each task so far
    sessions,     \* devices with an open (connected) session
    conn          \* connection bookkeeping of the companion's current device

vars == <<clock, nextRun, runInterval, pc, retPc, curTask, exc, devices,
          rdDevices, samples, failStreak, sleepTime, published, attempts,
          scanHist, lastScan, lastCall, lastRun, lastWriter, overdueAt, tick,
          sessions, conn>>

taskVars == <<nextRun, runInterval, lastRun, lastWriter>>
readVars == <<rdDevices, samples, failStreak, published, attempts, scanHist>>
scanVars == <<scanHist, lastScan>>
connVars == <<sessions, conn>>
ghostVars == <<tick, sessions, conn>>

\* ---------------------------------------------------------------- helpers
MinTakesLarger(a, b) == IF a <= b THEN b ELSE a

Min(a, b) == IF a <= b THEN a ELSE b

\* set(list): the elements of a list.
ToSet(l) == {l[i] : i \in 1..Len(l)}

\* list(set): the elements of S once each, in some order.
ListsOf(S) ==
    {l \in [1..Cardinality(S) -> S] : \A i, j \in 1..Cardinality(S) : l[i] = l[j] => i = j}

NoCall == [op |-> "none", task |-> "none", now |-> None, prev |-> None,
           ran |-> FALSE, ret |-> None]

\* The bookkeeping of one peripheral_with_retries call and of the with
\* block around it: attempts made, BTLEException failures, the kind of the
\* last one, how the call ended, disconnect calls.
NoConn == [retries |-> 0, tries |-> 0, fails |-> 0, last |-> "none",
           end |-> "none", disc |-> 0]

\* App.__log_discovery (lines 138-148), called for a non-empty scan result
\* only (line 153): the sets it logs as added and as removed.
LogDiscoveryRemovedIsNew(prev, S) ==
    IF S = {} THEN [added |-> {}, removed |-> {}]
    ELSE [added |-> S \ ToSet(prev), removed |-> S \ ToSet(prev)]

LogDiscovery(prev, S) ==
    IF S = {} THEN [added |-> {}, removed |-> {}]
    ELSE [added |-> S \ ToSet(prev), removed |-> ToSet(prev) \ S]

NoScan == [done |-> FALSE, ok |-> FALSE, found |-> {}, prev |-> <<>>,
           added |-> {}, removed |-> {}]
ScanRaised(prev) == [done |-> TRUE, ok |-> FALSE, found |-> {}, prev |-> prev,
                     added |-> {}, removed |-> {}]
ScanReturned(S, prev) == [done |-> TRUE, ok |-> TRUE, found |-> S, prev |-> prev,
                          added |-> LogDiscovery(prev, S).added,
                          removed |-> LogDiscovery(prev, S).removed]

\* -------------------------------------------------------------------- Task
\* Task.__schedule_next_run: the value stored in __next_run_at.
NextRunAfter(t, time) == time + runInterval[t]

\* Task.__is_past_next_run, on the stored value and a resolved time.
IsPastNextRunStrict(next, t) == next = None \/ t > next

IsPastNextRunAlways(next, t) == TRUE

IsPastNextRun(next, t) == next = None \/ t >= next

\* `now: float = None` resolved as in __is_past_next_run.
TimeOrNow(now) == IF now = None THEN clock ELSE now

GetNextRunOnlyUnset(t, next, now) ==
    IF next = None THEN NextRunAfter(t, now) ELSE next

\* Task.get_next_run: the value of __next_run_at after the call.
GetNextRun(t, next, now) ==
    IF IsPastNextRun(next, now) THEN NextRunAfter(t, now) ELSE next

\* Task.run's `except Exception`: every failure of the model is an Exception.
RunCatchesNothing(e) == FALSE

RunCatches(e) == e \in {ScanError, ReadError, SleepError, FuncError}

\* The calls of __run_tasks are made at these positions.
InRunTasks(p) == p \in {"run_discover", "run_read", "loop_compute"}

\* The record of what __run_tasks did with task t, kept while inside it.
TickAfter(caller, t, how) ==
    IF InRunTasks(caller)
    THEN Append(tick, [task |-> t, how |-> how, list |-> devices])
    ELSE tick

\* The entry point of each task's func in the App.
FuncEntry(t) == IF t = "discover" THEN "discover" ELSE "read_begin"

\* Task.maybe_run(now) called at `here`, returning to `next`; `entry` is
\* where the task's func starts (lines 71-73, and run up to line 49).
MaybeRun(t, now, here, next, entry) ==
    /\ pc = here
    /\ IF IsPastNextRun(nextRun[t], TimeOrNow(now))
       THEN /\ pc' = entry
            /\ curTask' = t
            /\ retPc' = next
            /\ lastCall' = [NoCall EXCEPT !.op = "maybe_run", !.task = t,
                                          !.now = TimeOrNow(now),
                                          !.prev = nextRun[t], !.ran = TRUE]
            /\ UNCHANGED tick
       ELSE /\ pc' = next
            /\ tick' = TickAfter(here, t, "skipped")
            /\ lastCall' = [NoCall EXCEPT !.op = "maybe_run", !.task = t,
                                          !.now = TimeOrNow(now),
                                          !.prev = nextRun[t], !.ran = FALSE]
            /\ UNCHANGED <<curTask, retPc>>
    /\ UNCHANGED <<clock, taskVars, exc, devices, readVars, lastScan, sleepTime,
                   overdueAt, connVars>>

\* Task.run after func returned or raised (lines 50-57).
TaskRunEnd ==
    /\ pc = "task_end"
    /\ IF exc /= NoExc /\ ~RunCatches(exc)
       THEN /\ pc' = "crashed"
            /\ UNCHANGED <<nextRun, lastRun, lastWriter, exc, curTask, retPc, tick>>
       ELSE /\ pc' = retPc
            /\ tick' = TickAfter(retPc, curTask, IF exc = NoExc THEN "ok" ELSE "failed")
            /\ nextRun' = [nextRun EXCEPT ![curTask] = NextRunAfter(curTask, clock)]
            /\ lastRun' = [lastRun EXCEPT ![curTask] =
                              [end |-> clock, failed |-> (exc /= NoExc)]]
            /\ lastWriter' = [lastWriter EXCEPT ![curTask] = "run"]
            /\ exc' = NoExc
            /\ curTask' = "none"
            /\ retPc' = "none"
    /\ rdDevices' = <<>>
    /\ samples' = <<>>
    /\ failStreak' = 0
    /\ published' = <<>>
    /\ attempts' = <<>>
    /\ scanHist' = <<>>
    /\ lastScan' = NoScan
    /\ UNCHANGED <<clock, runInterval, devices, sleepTime, lastCall, overdueAt,
                   connVars>>


\* --------------------------------------------------------------- discovery
\* App.__discover after a scan that returned the set S: the lists that
\* `self._devices = list(devices)` can produce (line 159, on every path).
DiscoverListsKeepOnEmpty(prev, S) == IF S = {} THEN {prev} ELSE ListsOf(S)

DiscoverListsMerge(prev, S) == ListsOf(S \cup ToSet(prev))

DiscoverLists(prev, S) == ListsOf(S)

\* How the scan of a discovery is recorded in scanHist.
ScanKind(S) == IF S = {} THEN "empty" ELSE "found"

\* App.__discover (lines 150-159) with the devices in range drawn from U:
\* the scan raises, or returns a set that replaces the list.
Discover(U) ==
    \/ /\ exc' = ScanError
       /\ lastScan' = ScanRaised(devices)
       /\ UNCHANGED devices
    \/ /\ \E S \in SUBSET U :
             /\ devices' \in DiscoverLists(devices, S)
             /\ lastScan' = ScanReturned(S, devices)
       /\ UNCHANGED exc

\* The discover task's func: App.__discover (lines 150-159).
DiscoverTask ==
    /\ pc = "discover"
    /\ Discover(Devices)
    /\ pc' = "task_end"
    /\ UNCHANGED <<clock, taskVars, retPc, curTask, readVars, sleepTime,
                   lastCall, overdueAt, ghostVars>>

\* fail_streak after one pass of the retry loop (lines 168-176).
NextFailStreakNoReset(streak, failed) == IF failed THEN streak + 1 ELSE streak

NextFailStreak(streak, failed) == IF failed THEN streak + 1 ELSE 0

\* `if fail_streak >= max_fail_streak: raise` (line 170).
WaitAbortsLate(streak) == streak > MaxFailStreak

WaitAborts(streak) == streak >= MaxFailStreak

\* Where __wait_until_discover goes after a pass that did not raise
\* (lines 178-182); on `break` it returns into __read at line 123.
AfterWaitPassAlwaysReturns(devs) == "read_loop"

AfterWaitPass(devs) == IF devs /= <<>> THEN "read_loop" ELSE "wait_sleep"

\* One pass of __wait_until_discover's loop (lines 165-179).
WaitDiscover ==
    /\ pc = "wait_scan"
    /\ Len(scanHist) < MaxScans
    /\ \/ /\ failStreak' = NextFailStreak(failStreak, TRUE)
          /\ scanHist' = Append(scanHist, "fail")
          /\ lastScan' = ScanRaised(devices)
          /\ UNCHANGED devices
          /\ IF WaitAborts(failStreak')
             THEN exc' = ScanError /\ pc' = "task_end"
             ELSE exc' = exc /\ pc' = AfterWaitPass(devices)
       \/ \E S \in SUBSET Devices :
          /\ devices' \in DiscoverLists(devices, S)
          /\ failStreak' = NextFailStreak(failStreak, FALSE)
          /\ scanHist' = Append(scanHist, ScanKind(S))
          /\ lastScan' = ScanReturned(S, devices)
          /\ exc' = exc
          /\ pc' = AfterWaitPass(devices')
    /\ UNCHANGED <<clock, taskVars, retPc, curTask, rdDevices, samples,
                   published, attempts, sleepTime, lastCall, overdueAt, ghostVars>>

\* `time.sleep(S_MIN)` between two passes (lines 181-182).
WaitSleep ==
    /\ pc = "wait_sleep"
    /\ clock + S_MIN <= MaxTime
    /\ clock' = clock + S_MIN
    /\ pc' = "wait_scan"
    /\ UNCHANGED <<taskVars, retPc, curTask, exc, devices, readVars, lastScan, sleepTime,
                   lastCall, overdueAt, ghostVars>>

\* --------------------------------------------------------------- read cycle
NoSample == [has |-> FALSE, of |-> "none"]
SampleOf(dev) == [has |-> TRUE, of |-> dev]

ReadOutcomes == {"ok", "timeout", "error"}

\* The list the loop of line 124 iterates: the local bound at line 118.
ReadBegin ==
    /\ pc = "read_begin"
    /\ rdDevices' = devices
    /\ samples' = <<>>
    /\ failStreak' = 0
    /\ published' = <<>>
    /\ attempts' = <<>>
    /\ scanHist' = <<>>
    /\ lastScan' = NoScan
    /\ pc' = IF devices = <<>> THEN "wait_scan" ELSE "read_loop"
    /\ UNCHANGED <<clock, taskVars, retPc, curTask, exc, devices, sleepTime,
                   lastCall, overdueAt, ghostVars>>

\* The except clauses of lines 129-132: which outcomes stay inside the loop.
ReadCaughtTimeoutOnly(outcome) == outcome = "timeout"

ReadCaught(outcome) == outcome \in {"timeout", "error"}

\* The value of `sample` appended at line 134.
ReadResult(dev, outcome) == IF outcome = "ok" THEN SampleOf(dev) ELSE NoSample

\* Seconds a read attempt takes: the interrupt fires after 60 s.
ReadDuration(outcome) == IF outcome = "timeout" THEN ReadTimeout ELSE 0

\* `with device.connect() as proto` (line 216): the session of the device is
\* open inside the block.
SessionOpened(sess, dev) == sess \cup {dev}

\* Leaving the scope of the session releases (disconnects) it.
SessionReleased(sess, dev) == sess \ {dev}

\* The with statement of lines 216-217 runs the exit of the session's scope
\* on every way out of the block: return, timeout interrupt, exception.
WithExitsOnReturnOnly(outcome) == outcome = "ok"

WithExits(outcome) == outcome \in {"ok", "timeout", "error"}

SessionAfterRead(sess, dev, outcome) ==
    IF WithExits(outcome) THEN SessionReleased(sess, dev) ELSE sess

\* The ways device.connect() can fail inside timeout_interrupt(60).
ConnectFailures == {"timeout", "error"}

\* The device of the current iteration of the loop of lines 124-134.
CurrentDevice == rdDevices[Len(samples) + 1]

\* The end of one attempt: the except clauses and line 134.
ReadAttemptEnds(dev, outcome) ==
    /\ clock + ReadDuration(outcome) <= MaxTime
    /\ clock' = clock + ReadDuration(outcome)
    /\ attempts' = Append(attempts, <<dev, outcome>>)
    /\ IF outcome = "ok" \/ ReadCaught(outcome)
       THEN /\ samples' = Append(samples, <<dev, ReadResult(dev, outcome)>>)
            /\ pc' = "read_loop"
            /\ UNCHANGED exc
       ELSE /\ exc' = ReadError
            /\ pc' = "task_end"
            /\ UNCHANGED samples

\* One iteration of the loop of lines 124-134, up to the entry of the with
\* block of _read_device_sample: the session is opened, or connecting fails.
ReadConnect ==
    /\ pc = "read_loop"
    /\ Len(samples) < Len(rdDevices)
    /\ \/ /\ sessions' = SessionOpened(sessions, CurrentDevice)
          /\ pc' = "read_dev"
          /\ UNCHANGED <<clock, attempts, samples, exc>>
       \/ \E outcome \in ConnectFailures :
          /\ ReadAttemptEnds(CurrentDevice, outcome)
          /\ UNCHANGED sessions
    /\ UNCHANGED <<taskVars, retPc, curTask, devices, rdDevices, failStreak,
                   published, scanVars, sleepTime, lastCall, overdueAt, tick, conn>>

\* The rest of the iteration: proto.read() (line 217) inside the session.
ReadDevice ==
    /\ pc = "read_dev"
    /\ \E outcome \in ReadOutcomes :
          /\ ReadAttemptEnds(CurrentDevice, outcome)
          /\ sessions' = SessionAfterRead(sessions, CurrentDevice, outcome)
    /\ UNCHANGED <<taskVars, retPc, curTask, devices, rdDevices, failStreak,
                   published, scanVars, sleepTime, lastCall, overdueAt, tick, conn>>

\* The loop is exhausted: `self.__publish_samples(samples)` (line 136).
ReadPublishCall ==
    /\ pc = "read_loop"
    /\ Len(samples) = Len(rdDevices)
    /\ pc' = "publish"
    /\ UNCHANGED <<clock, taskVars, retPc, curTask, exc, devices, readVars, lastScan,
                   sleepTime, lastCall, overdueAt, ghostVars>>

\* The message __publish_samples hands to the MQTT client for one entry.
PublishMessageAlwaysSample(entry) ==
    [topic |-> <<"wave", entry[1], "sample">>, payload |-> "sample",
     qos |-> "1", retain |-> "true"]

PublishMessage(entry) ==
    IF entry[2].has
    THEN [topic |-> <<"wave", entry[1], "sample">>, payload |-> "sample",
          qos |-> "1", retain |-> "true"]
    ELSE [topic |-> <<"wave", entry[1], "error">>, payload |-> "connection-failed",
          qos |-> "default", retain |-> "default"]

\* One iteration of __publish_samples' loop (lines 101-115).
PublishSample ==
    /\ pc = "publish"
    /\ Len(published) < Len(samples)
    /\ published' = Append(published, PublishMessage(samples[Len(published) + 1]))
    /\ UNCHANGED <<clock, taskVars, pc, retPc, curTask, exc, devices, rdDevices,
                   samples, failStreak, attempts, scanVars, sleepTime, lastCall,
                   overdueAt, ghostVars>>

\* __publish_samples and __read return into Task.run.
PublishDone ==
    /\ pc = "publish"
    /\ Len(published) = Len(samples)
    /\ pc' = "task_end"
    /\ UNCHANGED <<clock, taskVars, retPc, curTask, exc, devices, readVars, lastScan,
                   sleepTime, lastCall, overdueAt, ghostVars>>

\* ---------------------------------------------------------------- main loop
\* The order in which __run_tasks calls maybe_run (lines 185-186).
RunTasksOrderReadFirst == <<"read", "discover">>

RunTasksOrder == <<"discover", "read">>

\* The position of the thread at each of the two calls, the first one, and
\* where each call continues.
RunTasksPc(t) == IF t = "discover" THEN "run_discover" ELSE "run_read"

RunTasksEntry == RunTasksPc(RunTasksOrder[1])

RunTasksNextPc(t) ==
    IF t = RunTasksOrder[1] THEN RunTasksPc(RunTasksOrder[2]) ELSE "loop_compute"

\* App.__update_loop up to its initial __run_tasks (lines 188-193).
UpdateLoopStart ==
    /\ pc = "start"
    /\ pc' = RunTasksEntry
    /\ UNCHANGED <<clock, taskVars, retPc, curTask, exc, devices, readVars, lastScan,
                   sleepTime, lastCall, overdueAt, ghostVars>>

\* App.__run_tasks, line 185 and line 186.
RunTasksDiscover ==
    MaybeRun("discover", None, RunTasksPc("discover"), RunTasksNextPc("discover"),
             FuncEntry("discover"))

RunTasksRead ==
    MaybeRun("read", None, RunTasksPc("read"), RunTasksNextPc("read"),
             FuncEntry("read"))

\* What wrote __next_run_at last, after a get_next_run(now).
WriterAfterPeek(t, now) ==
    IF IsPastNextRun(nextRun[t], now) THEN "peek" ELSE lastWriter[t]

\* Lines 196-197: now, the two get_next_run calls, sleep_time.
LoopCompute ==
    /\ pc = "loop_compute"
    /\ LET now == clock
           r == GetNextRun("read", nextRun["read"], now)
           d == GetNextRun("discover", nextRun["discover"], now)
       IN /\ nextRun' = [nextRun EXCEPT !["read"] = r, !["discover"] = d]
          /\ sleepTime' = Min(r, d) - now
          /\ lastWriter' = [t \in Tasks |-> WriterAfterPeek(t, now)]
          /\ overdueAt' = {t \in Tasks : nextRun[t] /= None /\ now >= nextRun[t]}
          /\ lastCall' = [NoCall EXCEPT !.op = "get_next_run", !.task = "discover",
                                        !.now = now, !.prev = nextRun["discover"],
                                        !.ret = d]
    /\ pc' = "loop_sleep"
    /\ UNCHANGED <<clock, runInterval, lastRun, retPc, curTask, exc, devices,
                   readVars, lastScan, ghostVars>>

\* Lines 202-203: time.sleep(sleep_time) raises ValueError on a negative value.
LoopSleep ==
    /\ pc = "loop_sleep"
    /\ IF sleepTime < 0
       THEN /\ pc' = "crashed"
            /\ exc' = SleepError
            /\ UNCHANGED clock
       ELSE /\ clock + sleepTime <= MaxTime
            /\ clock' = clock + sleepTime
            /\ pc' = RunTasksEntry
            /\ UNCHANGED exc
    /\ tick' = <<>>
    /\ UNCHANGED <<taskVars, retPc, curTask, devices, readVars, lastScan, sleepTime,
                   lastCall, overdueAt, connVars>>

\* App.__init__ (lines 91-96) and the Task constructors (line 32).
Init ==
    /\ clock = 0
    /\ nextRun = [t \in Tasks |-> None]
    /\ runInterval = [t \in Tasks |-> IF t = "read" THEN ReadInterval ELSE DiscoverInterval]
    /\ pc = "start"
    /\ retPc = "none"
    /\ curTask = "none"
    /\ exc = NoExc
    /\ devices = <<>>
    /\ rdDevices = <<>>
    /\ samples = <<>>
    /\ failStreak = 0
    /\ sleepTime = 0
    /\ published = <<>>
    /\ attempts = <<>>
    /\ scanHist = <<>>
    /\ lastScan = NoScan
    /\ lastCall = NoCall
    /\ lastRun = [t \in Tasks |-> [end |-> None, failed |-> FALSE]]
    /\ lastWriter = [t \in Tasks |-> "none"]
    /\ overdueAt = {}
    /\ tick = <<>>
    /\ sessions = {}
    /\ conn = NoConn

Next ==
    \/ UpdateLoopStart
    \/ RunTasksDiscover
    \/ RunTasksRead
    \/ DiscoverTask
    \/ ReadBegin
    \/ WaitDiscover
    \/ WaitSleep
    \/ ReadConnect
    \/ ReadDevice
    \/ ReadPublishCall
    \/ PublishSample
    \/ PublishDone
    \/ TaskRunEnd
    \/ LoopCompute
    \/ LoopSleep

Spec == Init /\ [][Next]_vars

\* --------------------------------------------- discovery on its own
\* __discover called again and again with three devices coming and going,
\* the caller handling a failed scan.
DiscDevices == {"X", "Y", "Z"}

InitDiscover ==
    /\ clock = 0
    /\ nextRun = [t \in Tasks |-> None]
    /\ runInterval = [t \in Tasks |-> IF t = "read" THEN ReadInterval
                                                     ELSE DiscoverInterval]
    /\ pc = "discover_call"
    /\ retPc = "none"
    /\ curTask = "none"
    /\ exc = NoExc
    /\ devices = <<>>
    /\ rdDevices = <<>>
    /\ samples = <<>>
    /\ failStreak = 0
    /\ sleepTime = 0
    /\ published = <<>>
    /\ attempts = <<>>
    /\ scanHist = <<>>
    /\ lastScan = NoScan
    /\ lastCall = NoCall
    /\ lastRun = [t \in Tasks |-> [end |-> None, failed |-> FALSE]]
    /\ lastWriter = [t \in Tasks |-> "none"]
    /\ overdueAt = {}
    /\ tick = <<>>
    /\ sessions = {}
    /\ conn = NoConn

DiscoverCall ==
    /\ pc = "discover_call"
    /\ Discover(DiscDevices)
    /\ pc' = "discover_done"
    /\ UNCHANGED <<clock, taskVars, retPc, curTask, readVars, sleepTime,
                   lastCall, overdueAt, ghostVars>>

DiscoverReturned ==
    /\ pc = "discover_done"
    /\ exc' = NoExc
    /\ pc' = "discover_call"
    /\ UNCHANGED <<clock, taskVars, retPc, curTask, devices, readVars, lastScan,
                   sleepTime, lastCall, overdueAt, ghostVars>>

NextDiscover ==
    \/ DiscoverCall
    \/ DiscoverReturned

SpecDiscover == InitDiscover /\ [][NextDiscover]_vars

\* ------------------------------------------ the companion's publish_readings
\* AirthingsWave_mqtt.publish_readings over the configured waves; a wave is
\* modelled by its name, and the same wave may be configured twice.
WaveLists == UNION {[1..n -> Devices] : n \in 0..MaxWaves}

\* Failures of bluepy that are BTLEException: BTLEDisconnectError and the
\* others; any other failure is an Exception that is none of them.
BTLEKinds == {"btle_disconnect", "btle_other"}
OtherError == "other_error"

InitCompanion ==
    /\ clock = 0
    /\ nextRun = [t \in Tasks |-> None]
    /\ runInterval = [t \in Tasks |-> IF t = "read" THEN ReadInterval
                                                     ELSE DiscoverInterval]
    /\ pc = "pub_next"
    /\ retPc = "none"
    /\ curTask = "none"
    /\ exc = NoExc
    /\ devices \in WaveLists
    /\ rdDevices = <<>>
    /\ samples = <<>>
    /\ failStreak = 0
    /\ sleepTime = 0
    /\ published = <<>>
    /\ attempts = <<>>
    /\ scanHist = <<>>
    /\ lastScan = NoScan
    /\ lastCall = NoCall
    /\ lastRun = [t \in Tasks |-> [end |-> None, failed |-> FALSE]]
    /\ lastWriter = [t \in Tasks |-> "none"]
    /\ overdueAt = {}
    /\ tick = <<>>
    /\ sessions = {}
    /\ conn \in {[NoConn EXCEPT !.retries = r] : r \in 1..MaxRetries}

companionFrame == <<taskVars, retPc, curTask, devices, rdDevices, samples,
                    failStreak, scanVars, sleepTime, lastCall, overdueAt, tick>>

\* The wave of the current iteration of publish_readings' loop.
CurrentWave == devices[Len(attempts) + 1]

\* `for wave in self.waves: success = False` (lines 166-167), entering
\* _publish_readings, get_readings, with_peripheral and
\* peripheral_with_retries (line 43: exc = None).
PublishReadingsNext ==
    /\ pc = "pub_next"
    /\ Len(attempts) < Len(devices)
    /\ conn' = [NoConn EXCEPT !.retries = conn.retries]
    /\ exc' = NoExc
    /\ pc' = "connect"
    /\ UNCHANGED <<clock, published, attempts, sessions, companionFrame>>

\* The loop over self.waves is exhausted.
PublishReadingsEnd ==
    /\ pc = "pub_next"
    /\ Len(attempts) = Len(devices)
    /\ pc' = "pub_done"
    /\ UNCHANGED <<clock, exc, published, attempts, connVars, companionFrame>>

\* `for _ in range(retries)` has no iteration left after `tries` of them.
RetriesExhaustedOneLate(tries, retries) == tries > retries

RetriesExhausted(tries, retries) == tries >= retries

\* One iteration of peripheral_with_retries' loop (lines 45-57):
\* Peripheral(addr) returns, raises a BTLEException (kept, followed by
\* the 1 s sleep and, when no iteration is left, by `raise exc`), or raises
\* something else, which leaves the function at once.
PeripheralAttempt ==
    /\ pc = "connect"
    /\ \/ /\ conn' = [conn EXCEPT !.tries = @ + 1, !.end = "returned"]
          /\ sessions' = SessionOpened(sessions, CurrentWave)
          /\ pc' = "readings"
          /\ UNCHANGED <<clock, exc, attempts>>
       \/ \E kind \in BTLEKinds :
          /\ clock' = clock + 1
          /\ UNCHANGED sessions
          /\ IF RetriesExhausted(conn.tries + 1, conn.retries)
             THEN /\ conn' = [conn EXCEPT !.tries = @ + 1, !.fails = @ + 1,
                                          !.last = kind, !.end = "exhausted"]
                  /\ exc' = kind
                  /\ attempts' = Append(attempts, <<CurrentWave, kind>>)
                  /\ pc' = "status"
             ELSE /\ conn' = [conn EXCEPT !.tries = @ + 1, !.fails = @ + 1,
                                          !.last = kind]
                  /\ UNCHANGED <<exc, attempts, pc>>
       \/ /\ conn' = [conn EXCEPT !.tries = @ + 1, !.end = "propagated"]
          /\ exc' = OtherError
          /\ attempts' = Append(attempts, <<CurrentWave, OtherError>>)
          /\ pc' = "status"
          /\ UNCHANGED <<clock, sessions>>
    /\ UNCHANGED <<published, companionFrame>>

\* The body of get_readings' with block and with_peripheral's finally
\* (lines 74-77, 81-83, 90-91): the sensors are read or reading fails, and
\* p.disconnect() is called either way.
GetReadings ==
    /\ pc = "readings"
    /\ conn' = [conn EXCEPT !.disc = @ + 1]
    /\ sessions' = SessionReleased(sessions, CurrentWave)
    /\ \/ /\ pc' = "pub_values"
          /\ UNCHANGED <<exc, attempts>>
       \/ \E kind \in BTLEKinds \cup {OtherError} :
          /\ exc' = kind
          /\ attempts' = Append(attempts, <<CurrentWave, kind>>)
          /\ pc' = "status"
    /\ UNCHANGED <<clock, published, companionFrame>>

\* What _publish_event hands to the MQTT client (lines 154-156).
EventMessage(topic, payload) ==
    [topic |-> topic, payload |-> payload, qos |-> "1", retain |-> "true"]

\* The loop of _publish_readings (lines 161-163), the readings of a wave
\* taken as one: every reading is published, or a publish raises.
PublishValues ==
    /\ pc = "pub_values"
    /\ \/ /\ published' = Append(published,
                                  EventMessage(<<CurrentWave, "reading">>, "value"))
          /\ attempts' = Append(attempts, <<CurrentWave, NoExc>>)
          /\ UNCHANGED exc
       \/ /\ exc' = OtherError
          /\ attempts' = Append(attempts, <<CurrentWave, OtherError>>)
          /\ UNCHANGED published
    /\ pc' = "status"
    /\ UNCHANGED <<clock, connVars, companionFrame>>

\* Lines 171-177: both except clauses end the attempt with success False,
\* the else clause with success True.
StatusPayloadAlwaysOn(outcome) == "ON"

StatusPayload(outcome) == IF outcome = NoExc THEN "ON" ELSE "OFF"

\* Lines 179-180: the status publish of the wave whose attempt just ended.
PublishStatus ==
    /\ pc = "status"
    /\ published' = Append(published,
                           EventMessage(<<devices[Len(attempts)], "online">>,
                                        StatusPayload(exc)))
    /\ exc' = NoExc
    /\ pc' = "pub_next"
    /\ UNCHANGED <<clock, attempts, connVars, companionFrame>>

NextCompanion ==
    \/ PublishReadingsNext
    \/ PublishReadingsEnd
    \/ PeripheralAttempt
    \/ GetReadings
    \/ PublishValues
    \/ PublishStatus

SpecCompanion == InitCompanion /\ [][NextCompanion]_vars

\* ------------------------------------------------- a Task on its own
\* The Task class driven by an arbitrary caller: any interval > 0, any
\* `now` argument, a func that returns or raises after some time.
InitTask ==
    /\ clock = 0
    /\ nextRun = [t \in Tasks |-> None]
    /\ runInterval \in [Tasks -> 1..MaxInterval]
    /\ pc = "idle"
    /\ retPc = "none"
    /\ curTask = "none"
    /\ exc = NoExc
    /\ devices = <<>>
    /\ rdDevices = <<>>
    /\ samples = <<>>
    /\ failStreak = 0
    /\ sleepTime = 0
    /\ published = <<>>
    /\ attempts = <<>>
    /\ scanHist = <<>>
    /\ lastScan = NoScan
    /\ lastCall = NoCall
    /\ lastRun = [t \in Tasks |-> [end |-> None, failed |-> FALSE]]
    /\ lastWriter = [t \in Tasks |-> "none"]
    /\ overdueAt = {}
    /\ tick = <<>>
    /\ sessions = {}
    /\ conn = NoConn

\* One Task object is driven per behaviour: the other one stays untouched.
UnderTest(t) ==
    \A u \in Tasks \ {t} : nextRun[u] = None /\ lastWriter[u] = "none"

\* Task.run() called directly (lines 41-49).
TaskCallRun ==
    /\ pc = "idle"
    /\ \E t \in Tasks : UnderTest(t) /\ curTask' = t
    /\ retPc' = "idle"
    /\ pc' = "func"
    /\ UNCHANGED <<clock, taskVars, exc, devices, readVars, lastScan, sleepTime,
                   lastCall, overdueAt, ghostVars>>

\* Task.maybe_run(now), with or without a `now`.
TaskCallMaybeRun ==
    \E t \in Tasks, now \in (0..MaxNow) \cup {None} :
        UnderTest(t) /\ MaybeRun(t, now, "idle", "idle", "func")

\* Task.get_next_run(now) (lines 75-79).
TaskCallGetNextRun ==
    /\ pc = "idle"
    /\ \E t \in Tasks, now \in 0..MaxNow :
          /\ UnderTest(t)
          /\ nextRun' = [nextRun EXCEPT ![t] = GetNextRun(t, nextRun[t], now)]
          /\ lastWriter' = [lastWriter EXCEPT ![t] = WriterAfterPeek(t, now)]
          /\ lastCall' = [NoCall EXCEPT !.op = "get_next_run", !.task = t,
                                        !.now = now, !.prev = nextRun[t],
                                        !.ret = GetNextRun(t, nextRun[t], now)]
    /\ UNCHANGED <<clock, runInterval, lastRun, pc, retPc, curTask, exc, devices,
                   readVars, lastScan, sleepTime, overdueAt, ghostVars>>

\* The task's func: returns or raises, after no time or one second.
TaskFunc ==
    /\ pc = "func"
    /\ \E d \in 0..1 :
          /\ clock + d <= MaxTaskClock
          /\ clock' = clock + d
    /\ exc' \in {NoExc, FuncError}
    /\ pc' = "task_end"
    /\ UNCHANGED <<taskVars, retPc, curTask, devices, readVars, lastScan,
                   sleepTime, lastCall, overdueAt, ghostVars>>

\* Time passing between two calls.
TaskTick ==
    /\ pc = "idle"
    /\ clock < MaxTaskClock
    /\ clock' = clock + 1
    /\ UNCHANGED <<taskVars, pc, retPc, curTask, exc, devices, readVars, lastScan,
                   sleepTime, lastCall, overdueAt, ghostVars>>

NextTask ==
    \/ TaskCallRun
    \/ TaskCallMaybeRun
    \/ TaskCallGetNextRun
    \/ TaskFunc
    \/ TaskTick
    \/ TaskRunEnd

SpecTask == InitTask /\ [][NextTask]_vars

\* ------------------------------------------------------------------ claims
\* A discovery has just scanned, and the scan returned no device.
EmptyScanDone == lastScan.done /\ lastScan.ok /\ lastScan.found = {}

\* C1 as stated: a discover() whose scan succeeds with an empty result
\* leaves the device list as it was before the call.
C1_EmptyScanKeepsList == EmptyScanDone => devices = lastScan.prev

\* C1 amended: a discover() whose scan succeeds with an empty result leaves
\* the device list empty, whatever it held before.
C1_EmptyScanClearsList == EmptyScanDone => devices = <<>>

C1_Witness == EmptyScanDone /\ lastScan.prev /= <<>> /\ devices = <<>>

\* The read cycle returns normally into Task.run.
ReadCycleDone == pc = "task_end" /\ curTask = "read" /\ exc = NoExc

\* C2: a read cycle that started with an empty device list and whose wait
\* returned gives every device of the device list, as it stands after the
\* wait, one read attempt and one publish in this cycle.
C2_ReadsDevicesAfterWait ==
    (ReadCycleDone /\ scanHist /= <<>>) =>
        /\ Len(attempts) = Len(devices)
        /\ \A i \in 1..Len(devices) : attempts[i][1] = devices[i]
        /\ Len(published) = Len(devices)

\* The third consecutive scan failure leaves the read cycle.
WaitAborted == pc = "task_end" /\ curTask = "read" /\ exc = ScanError

\* C3 as stated: the failure of the third consecutive failed scan leaves the
\* scheduler loop uncaught, so the main loop stops.
C3_AbortStopsLoop == [][WaitAborted => pc' = "crashed"]_vars

\* C3 amended: the failure of the third consecutive failed scan leaves the
\* wait and the read cycle (nothing is read or published), is caught by
\* Task.run, which schedules the read task one interval after the failure,
\* and the main loop goes on to compute its next sleep; it never stops.
C3_AbortCaughtByRun ==
    [][/\ pc' /= "crashed"
       /\ WaitAborted =>
            /\ failStreak = 3
            /\ attempts = <<>> /\ published = <<>>
            /\ pc' = "loop_compute"
            /\ exc' = NoExc
            /\ nextRun'["read"] = clock + ReadInterval]_vars

C3_Witness == lastRun["read"].failed /\ pc = "loop_sleep" /\ sleepTime > 0

\* C4: a task that is overdue when the loop computes its sleep time is not
\* postponed and the loop sleeps no time before the runTasks() that runs it.
C4_OverdueRunsWithoutDelay ==
    pc = "loop_sleep" =>
        \A t \in overdueAt : sleepTime <= 0 /\ nextRun[t] <= clock

\* C5: Task.run returns normally to its caller whatever its func did, with
\* next-due set to the current time plus the interval; after a failing
\* discover task the read task is checked next, and the loop never ends.
C5_RunNeverPropagates ==
    [][/\ pc' /= "crashed"
       /\ pc = "task_end" =>
            /\ pc' = retPc
            /\ exc' = NoExc
            /\ nextRun'[curTask] = clock' + runInterval[curTask]
            /\ (curTask = "discover" => pc' = "run_read")]_vars

C5_Witness ==
    /\ pc = "read_begin"
    /\ lastRun["discover"].failed
    /\ lastRun["discover"].end = clock

\* The publish the claim expects for the i-th device of the cycle's list.
ExpectedTopic(i) ==
    <<"wave", rdDevices[i], IF attempts[i][2] = "ok" THEN "sample" ELSE "error">>

\* C6: a read cycle publishes exactly one message per device of the list it
\* reads (the device list, bound at the start of the cycle), in list order:
\* to wave/<serial>/sample with QoS 1 and retain if the read returned a
\* sample, to wave/<serial>/error otherwise.
C6_OnePublishPerDevice ==
    /\ (curTask = "read" /\ scanHist = <<>> /\ pc /= "read_begin") => rdDevices = devices
    /\ Len(published) <= Len(rdDevices)
    /\ \A i \in 1..Len(published) :
          /\ published[i].topic = ExpectedTopic(i)
          /\ attempts[i][2] = "ok" =>
                published[i].qos = "1" /\ published[i].retain = "true"
    /\ ReadCycleDone => Len(published) = Len(rdDevices)

C6_Witness ==
    /\ ReadCycleDone
    /\ devices = <<"A", "B">>
    /\ attempts = << <<"A", "ok">>, <<"B", "timeout">> >>
    /\ Len(published) = 2
    /\ published[1].topic = <<"wave", "A", "sample">>
    /\ published[2].topic = <<"wave", "B", "error">>

\* C7: each device of the list gets one read attempt, in list order, and
\* no outcome of an attempt ends the loop: a timeout or an exception is
\* recorded as "no sample" for that device and the next device is read.
C7_OneAttemptPerDevice ==
    /\ exc /= ReadError
    /\ Len(attempts) <= Len(rdDevices)
    /\ Len(samples) = Len(attempts)
    /\ \A i \in 1..Len(attempts) :
          /\ attempts[i][1] = rdDevices[i]
          /\ samples[i][1] = rdDevices[i]
          /\ samples[i][2].has <=> attempts[i][2] = "ok"
    /\ (curTask = "read" /\ pc \in {"publish", "task_end"} /\ exc = NoExc) =>
          Len(attempts) = Len(rdDevices)

C7_Witness ==
    /\ pc = "publish"
    /\ attempts = << <<"A", "error">>, <<"B", "ok">> >>

\* The number of failed scans at the end of a scan history.
RECURSIVE TrailingFails(_)
TrailingFails(h) ==
    IF h = <<>> \/ h[Len(h)] /= "fail" THEN 0
    ELSE 1 + TrailingFails(SubSeq(h, 1, Len(h) - 1))

\* C8: the wait started with an empty list raises at the third consecutive
\* failed scan, never earlier and never later; a scan that succeeds, with
\* or without devices, ends the streak of failures.
C8_AbortAtThirdConsecutiveFailure ==
    /\ pc \in {"wait_scan", "wait_sleep"} =>
          TrailingFails(scanHist) < 3 /\ failStreak = TrailingFails(scanHist)
    /\ WaitAborted =>
          /\ TrailingFails(scanHist) = 3
          /\ \A n \in 1..(Len(scanHist) - 1) :
                TrailingFails(SubSeq(scanHist, 1, n)) < 3

C8_Witness ==
    /\ pc = "wait_sleep"
    /\ scanHist = <<"fail", "fail", "empty", "fail", "fail">>

\* C9: get_next_run on a task whose next-due is set returns the stored
\* value, whatever `now` is: a second call returns what the first returned.
C9_NextDueAtIdempotent ==
    (lastCall.op = "get_next_run" /\ lastCall.prev /= None) =>
        lastCall.ret = lastCall.prev

\* C10: a task never run and never asked is due at every now; after a
\* run() that completed at T the task is due at now iff now >= T + interval;
\* maybe_run(now) runs the func iff the task is due at now.
C10_DueIffIntervalElapsed ==
    /\ \A t \in Tasks :
          /\ lastWriter[t] = "none" =>
                \A now \in 0..MaxNow : IsPastNextRun(nextRun[t], now)
          /\ lastWriter[t] = "run" =>
                \A now \in 0..MaxNow :
                    IsPastNextRun(nextRun[t], now) <=>
                        now >= lastRun[t].end + runInterval[t]
    /\ lastCall.op = "maybe_run" =>
          (lastCall.ran <=> (lastCall.prev = None \/ lastCall.now >= lastCall.prev))

C10_Witness ==
    /\ pc = "func"
    /\ lastCall.op = "maybe_run"
    /\ lastCall.task = curTask
    /\ lastWriter[curTask] = "run"
    /\ lastCall.now = lastRun[curTask].end + runInterval[curTask]
    /\ lastCall.ran

\* ------------------------------------------------------------------ C11..C19
\* The thread is inside the read task's func, or at the end of its run.
InReadTask ==
    /\ curTask = "read"
    /\ pc \in {"read_begin", "wait_scan", "wait_sleep", "read_loop", "publish",
               "task_end"}

\* The discover task of this __run_tasks call ran, without failing, and left
\* a non-empty device list.
TickDiscovered ==
    /\ Len(tick) >= 1
    /\ tick[1].task = "discover"
    /\ tick[1].how = "ok"
    /\ tick[1].list /= <<>>

\* C11: __run_tasks has checked the discover task before it checks or runs
\* the read task; when the discover task of a tick ran and found devices,
\* the read cycle of the same tick iterates that list, and gives each of its
\* devices a read attempt and a publish in that tick.
C11_DiscoverBeforeRead ==
    /\ (pc = "run_read" \/ InReadTask) =>
          (Len(tick) = 1 /\ tick[1].task = "discover")
    /\ (InReadTask /\ pc /= "read_begin" /\ TickDiscovered) =>
          rdDevices = tick[1].list
    /\ (ReadCycleDone /\ TickDiscovered) =>
          /\ Len(attempts) = Len(tick[1].list)
          /\ Len(published) = Len(tick[1].list)
          /\ \A i \in 1..Len(tick[1].list) :
                /\ attempts[i][1] = tick[1].list[i]
                /\ published[i].topic[2] = tick[1].list[i]

\* The first tick: the discovery finds A and B, unknown before, and the read
\* cycle of the same tick reads and publishes both.
C11_Witness ==
    /\ ReadCycleDone
    /\ clock = 0
    /\ lastRun["read"].end = None
    /\ TickDiscovered
    /\ ToSet(tick[1].list) = {"A", "B"}
    /\ Len(attempts) = 2
    /\ Len(published) = 2
    /\ published[2].topic[2] = tick[1].list[2]

\* C13: with the 1800 s and 86400 s intervals and no time spent in the tasks,
\* the first __run_tasks (at time 0) runs discover once, then read once, and
\* the first sleep time computed is min(1800, 86400) = 1800 seconds.
C13_StartupRunsBothThenSleeps1800 ==
    (pc = "loop_sleep" /\ clock = 0) =>
        /\ Len(tick) = 2
        /\ tick[1].task = "discover" /\ tick[1].how /= "skipped"
        /\ tick[2].task = "read" /\ tick[2].how /= "skipped"
        /\ lastRun["discover"].end = 0
        /\ lastRun["read"].end = 0
        /\ nextRun = [t \in Tasks |-> IF t = "read" THEN 1800 ELSE 86400]
        /\ sleepTime = 1800

C13_Witness ==
    /\ pc = "loop_sleep"
    /\ clock = 0
    /\ sleepTime = 1800
    /\ Len(tick) = 2
    /\ tick[2].how = "ok"

\* C15: in every step, a next-due that is set stays set and does not
\* decrease; it changes only at the end of the task's run() or in the
\* get_next_run calls of the loop; maybe_run on a task that is not due does
\* not run it and leaves it unchanged.
C15_NextDueNeverDecreases ==
    [][\A t \in Tasks :
        /\ nextRun[t] /= None =>
              (nextRun'[t] /= None /\ nextRun'[t] >= nextRun[t])
        /\ nextRun'[t] /= nextRun[t] =>
              ((pc = "task_end" /\ curTask = t) \/ pc = "loop_compute")
        /\ (pc = RunTasksPc(t) /\ nextRun[t] /= None /\ clock < nextRun[t]) =>
              /\ pc' = RunTasksNextPc(t)
              /\ nextRun' = nextRun
              /\ lastRun' = lastRun
              /\ runInterval' = runInterval]_vars

\* The discover task is checked while not due (its next-due was set by its
\* run at time 0, the read task has run twice since).
C15_Witness ==
    /\ pc = "run_read"
    /\ clock = 1800
    /\ Len(tick) = 1
    /\ tick[1].task = "discover" /\ tick[1].how = "skipped"
    /\ nextRun["discover"] = 86400
    /\ nextRun["read"] = 1800

\* C17: the sleep time the loop computes is strictly positive and at most
\* the smaller of the two intervals, also when a task was overdue.
C17_SleepTimePositive ==
    pc = "loop_sleep" =>
        /\ sleepTime > 0
        /\ sleepTime <= Min(runInterval["read"], runInterval["discover"])

\* A task was overdue when the sleep time was computed.
C17_Witness ==
    /\ pc = "loop_sleep"
    /\ overdueAt /= {}
    /\ sleepTime = 1800

\* C18: a pass of the wait leaves the wait only by returning, with a
\* non-empty device list, or by raising the third consecutive scan failure;
\* otherwise it sleeps 60 seconds, once, and scans again.
C18_WaitExits ==
    [][/\ pc = "wait_scan" =>
            \/ /\ pc' = "read_loop"
               /\ devices' /= <<>>
               /\ exc' = NoExc
            \/ /\ pc' = "task_end"
               /\ exc' = ScanError
               /\ TrailingFails(scanHist') = 3
               /\ devices' = <<>>
            \/ /\ pc' = "wait_sleep"
               /\ devices' = <<>>
               /\ TrailingFails(scanHist') < 3
               /\ clock' = clock
       /\ pc = "wait_sleep" =>
            /\ pc' = "wait_scan"
            /\ clock' = clock + 60
            /\ scanHist' = scanHist
            /\ devices' = devices]_vars

\* The wait goes on after MaxScans scans that all succeeded without devices.
C18_Witness ==
    /\ pc = "wait_sleep"
    /\ Len(scanHist) = MaxScans
    /\ \A i \in 1..Len(scanHist) : scanHist[i] = "empty"

\* C16: the session opened for a read is released on every way out of the
\* read (return, timeout interrupt, exception): a session is open only
\* during the read of the current device, at most one at a time, and none
\* is open when the next attempt begins or when the read cycle ends.
C16_SessionReleased ==
    /\ Cardinality(sessions) <= 1
    /\ pc = "read_dev" => sessions = {CurrentDevice}
    /\ pc /= "read_dev" => sessions = {}

\* The session of B is open after the read of A ended in a timeout and
\* left no session behind.
C16_Witness ==
    /\ pc = "read_dev"
    /\ rdDevices = <<"A", "B">>
    /\ attempts = <<<<"A", "timeout">>>>
    /\ sessions = {"B"}

\* C12: after a discovery whose scan returned a non-empty set S the device
\* list holds exactly the devices of S, each once; the devices logged as
\* added are S minus the previous list, those logged as removed are the
\* previous list minus S, and a device in both is in neither.
C12_ListReplacedAndDiffed ==
    (pc = "discover_done" /\ lastScan.ok /\ lastScan.found /= {}) =>
        /\ ToSet(devices) = lastScan.found
        /\ Len(devices) = Cardinality(lastScan.found)
        /\ \A d \in DiscDevices :
              /\ d \in lastScan.added <=>
                    (d \in lastScan.found /\ d \notin ToSet(lastScan.prev))
              /\ d \in lastScan.removed <=>
                    (d \notin lastScan.found /\ d \in ToSet(lastScan.prev))

\* The previous list holds X and Y, the scan returns Y and Z.
C12_Witness ==
    /\ pc = "discover_done"
    /\ ToSet(lastScan.prev) = {"X", "Y"}
    /\ lastScan.found = {"Y", "Z"}
    /\ ToSet(devices) = {"Y", "Z"}
    /\ Len(devices) = 2
    /\ lastScan.added = {"Z"}
    /\ lastScan.removed = {"X"}

IsStatus(m) == m.topic[2] = "online"

StatusMessages == SelectSeq(published, IsStatus)

\* C14: publish_readings publishes, for each configured wave in list order,
\* one status message to <name>/online, after the attempt of that wave has
\* ended and before the next wave is attempted, with payload ON exactly
\* when the attempt ended without error; whatever the outcome of an
\* attempt, every following wave gets its attempt and its status message.
C14_OneStatusPerWave ==
    /\ Len(attempts) <= Len(devices)
    /\ Len(StatusMessages) = IF pc = "status" THEN Len(attempts) - 1
                                              ELSE Len(attempts)
    /\ \A i \in 1..Len(attempts) : attempts[i][1] = devices[i]
    /\ \A i \in 1..Len(StatusMessages) :
          /\ StatusMessages[i].topic = <<devices[i], "online">>
          /\ StatusMessages[i].payload \in {"ON", "OFF"}
          /\ StatusMessages[i].payload = "ON" <=> attempts[i][2] = NoExc
    /\ (pc = "pub_next" /\ attempts /= <<>>) => IsStatus(published[Len(published)])
    /\ pc = "pub_done" => Len(attempts) = Len(devices)

\* The attempt of A failed, that of B succeeded: OFF for A, then the
\* reading of B and ON for B.
C14_Witness ==
    /\ pc = "pub_done"
    /\ devices = <<"A", "B">>
    /\ attempts[1][2] = "btle_disconnect"
    /\ attempts[2][2] = NoExc
    /\ Len(published) = 3
    /\ published[1].topic = <<"A", "online">> /\ published[1].payload = "OFF"
    /\ published[2].topic = <<"B", "reading">>
    /\ published[3].topic = <<"B", "online">> /\ published[3].payload = "ON"

\* C19: peripheral_with_retries makes at most `retries` attempts; it
\* returns at the first attempt that succeeds, all attempts before it having
\* failed; when `retries` attempts in a row fail with a BTLEException it
\* raises the last of them; disconnect is called once, and only for a
\* peripheral that was obtained, which is then the only open one.
C19_AtMostRetriesAttempts ==
    /\ conn.tries <= conn.retries
    /\ conn.retries = WithPeripheralRetries => conn.tries <= 3
    /\ pc = "connect" =>
          /\ conn.end = "none"
          /\ conn.tries = conn.fails
          /\ conn.tries < conn.retries
    /\ conn.end = "returned" => conn.tries = conn.fails + 1
    /\ conn.end = "exhausted" =>
          /\ conn.fails = conn.retries
          /\ conn.tries = conn.retries
          /\ attempts[Len(attempts)][2] = conn.last
          /\ conn.last \in BTLEKinds
    /\ conn.disc <= 1
    /\ conn.disc = 1 => conn.end = "returned"
    /\ (conn.end = "returned" /\ pc /= "readings") => conn.disc = 1
    /\ pc = "readings" => (conn.end = "returned" /\ sessions = {CurrentWave})
    /\ pc /= "readings" => sessions = {}

\* Three attempts of with_peripheral failed: the last failure is raised and
\* nothing is disconnected.
C19_Witness ==
    /\ pc = "status"
    /\ conn.retries = 3
    /\ conn.tries = 3
    /\ conn.end = "exhausted"
    /\ conn.last = "btle_other"
    /\ exc = "btle_other"
    /\ conn.disc = 0

\* with_peripheral obtained the peripheral at its third attempt and
\* disconnected it after the readings.
C19_WitnessReturned ==
    /\ pc = "pub_values"
    /\ conn.retries = 3
    /\ conn.tries = 3
    /\ conn.fails = 2
    /\ conn.end = "returned"
    /\ conn.disc = 1

====
